---- MODULE Spec2Model ----
(***************************************************************************)
(* A model of js/cache.js (CacheManager, a TTL cache over localStorage),   *)
(* alone and in two execution contexts, and of js/slideshow.js.            *)
(*                                                                         *)
(* Strings that the code inspects character by character (storage keys,    *)
(* for startsWith) are sequences of one-character strings.  A stored       *)
(* value is the JSON text as a sequence of lexical tokens, so that         *)
(* JSON.stringify and JSON.parse are a printer and a parser and a          *)
(* truncated text is a text that does not parse.                           *)
(***************************************************************************)
EXTENDS Integers, Sequences, FiniteSets, TLC

VARIABLES storage, now, last, expiresAt, replaced, enumFailed,
          tabs, writer,
          domCount, active, display, slides, currentSlide, slideshowInterval,
          timers, pendingInits, called, stopped

\* The state of the execution contexts (tabs) that share the storage.
tabVars == <<tabs, writer>>

\* The state of js/slideshow.js and of the part of the page it works on.
slideVars ==
    <<domCount, active, display, slides, currentSlide, slideshowInterval,
      timers, pendingInits, called, stopped>>

\* The state of js/cache.js.
cacheVars == <<storage, now, last, expiresAt, replaced, enumFailed>>

vars == <<cacheVars, tabVars, slideVars>>

(* ------------------------------ bounds --------------------------------- *)

\* The page holds at most MaxSlides .slide elements.
MaxSlides == 3
\* At most MaxTimers interval timers exist at a time.
MaxTimers == 3
\* At most MaxInits calls of Slideshow.init() are in flight at a time.
MaxInits == 2

\* Date.now() ranges over 0..MaxTime.
MaxTime == 2
\* set is called with ttl in 0..MaxTtl.
MaxTtl == 1

(* ---------------------------- JS values -------------------------------- *)

Num(n) == [t |-> "number", n |-> n]
NaN == [t |-> "NaN"]
Str(s) == [t |-> "string", s |-> s]
Bool(b) == [t |-> "boolean", b |-> b]
Null == [t |-> "null"]
Undefined == [t |-> "undefined"]
\* An object is its own properties in insertion order: <<name, value>> pairs.
Obj(props) == [t |-> "object", props |-> props]
\* An object that holds a reference to itself.
Cyclic == [t |-> "cyclic"]

\* The payload of the scenario of the documentation: {tempF: 72}.
Weather == Obj(<< <<"tempF", Num(72)>> >>)

\* Values that JSON represents exactly.
Serializable == {Num(0), Bool(FALSE), Str(""), Weather}
\* The payloads set is called with.
Data == Serializable \cup {NaN, Cyclic}

\* The payloads of the two-key system.
Payloads == {Num(0), Cyclic}

\* Caller keys.
Keys == {<<"a">>, <<"b">>}
OneKey == {<<"a">>}

(* ------------------------------- JSON ---------------------------------- *)

Names == {"", "data", "timestamp", "ttl", "tempF", "x"}
Numbers == (0 .. MaxTime + MaxTtl) \cup {72}

Quote(s) == "\"" \o s \o "\""

Thrown == [threw |-> TRUE]

\* JSON.stringify(v).  undef: the result is undefined (no text), as for
\* JSON.stringify(undefined); an object member with such a value is omitted.
RECURSIVE Stringify(_)
RECURSIVE StringifyProps(_, _)
StringifyProps(props, first) ==
    IF props = <<>> THEN [threw |-> FALSE, text |-> <<>>]
    ELSE LET head == Stringify(props[1][2])
             rest == StringifyProps(Tail(props), first /\ (head.threw \/ head.undef))
         IN  IF head.threw \/ rest.threw THEN Thrown
             ELSE IF head.undef THEN rest
             ELSE [threw |-> FALSE,
                   text  |-> (IF first THEN <<>> ELSE <<",">>)
                             \o <<Quote(props[1][1]), ":">> \o head.text \o rest.text]
Stringify(v) ==
    CASE v.t = "number"    -> [threw |-> FALSE, undef |-> FALSE, text |-> <<ToString(v.n)>>]
      [] v.t = "NaN"       -> [threw |-> FALSE, undef |-> FALSE, text |-> <<"null">>]
      [] v.t = "string"    -> [threw |-> FALSE, undef |-> FALSE, text |-> <<Quote(v.s)>>]
      [] v.t = "boolean"   -> [threw |-> FALSE, undef |-> FALSE,
                               text |-> <<IF v.b THEN "true" ELSE "false">>]
      [] v.t = "null"      -> [threw |-> FALSE, undef |-> FALSE, text |-> <<"null">>]
      [] v.t = "undefined" -> [threw |-> FALSE, undef |-> TRUE, text |-> <<>>]
      [] v.t = "cyclic"    -> [threw |-> TRUE, undef |-> FALSE, text |-> <<>>]
      [] v.t = "object"    ->
            LET body == StringifyProps(v.props, TRUE)
            IN  IF body.threw THEN [threw |-> TRUE, undef |-> FALSE, text |-> <<>>]
                ELSE [threw |-> FALSE, undef |-> FALSE,
                      text |-> <<"{">> \o body.text \o <<"}">>]

IsNumberTok(tok) == \E n \in Numbers : ToString(n) = tok
IsStringTok(tok) == \E s \in Names : Quote(s) = tok
NumberOf(tok) == CHOOSE n \in Numbers : ToString(n) = tok
StringOf(tok) == CHOOSE s \in Names : Quote(s) = tok

NoParse == [ok |-> FALSE]

\* One JSON value read from toks at position i: the value and the position
\* after it, or a syntax error.
RECURSIVE ParseValue(_, _)
RECURSIVE ParseMembers(_, _, _)
ParseMembers(toks, i, acc) ==
    IF i + 2 > Len(toks) \/ ~IsStringTok(toks[i]) \/ toks[i + 1] # ":" THEN NoParse
    ELSE LET v == ParseValue(toks, i + 2)
         IN  IF ~v.ok \/ v.next > Len(toks) THEN NoParse
             ELSE LET acc2 == Append(acc, <<StringOf(toks[i]), v.val>>)
                  IN  IF toks[v.next] = "}"
                        THEN [ok |-> TRUE, val |-> Obj(acc2), next |-> v.next + 1]
                      ELSE IF toks[v.next] = ","
                        THEN ParseMembers(toks, v.next + 1, acc2)
                      ELSE NoParse
ParseValue(toks, i) ==
    IF i > Len(toks) THEN NoParse
    ELSE LET tok == toks[i]
         IN  CASE tok = "null"  -> [ok |-> TRUE, val |-> Null, next |-> i + 1]
               [] tok = "true"  -> [ok |-> TRUE, val |-> Bool(TRUE), next |-> i + 1]
               [] tok = "false" -> [ok |-> TRUE, val |-> Bool(FALSE), next |-> i + 1]
               [] tok = "{"     ->
                     IF i + 1 <= Len(toks) /\ toks[i + 1] = "}"
                       THEN [ok |-> TRUE, val |-> Obj(<<>>), next |-> i + 2]
                       ELSE ParseMembers(toks, i + 1, <<>>)
               [] OTHER ->
                     IF IsNumberTok(tok)
                       THEN [ok |-> TRUE, val |-> Num(NumberOf(tok)), next |-> i + 1]
                     ELSE IF IsStringTok(tok)
                       THEN [ok |-> TRUE, val |-> Str(StringOf(tok)), next |-> i + 1]
                     ELSE NoParse

\* JSON.parse(text): the whole text is one value, else a SyntaxError.
JSONParse(text) ==
    LET r == ParseValue(text, 1)
    IN  IF r.ok /\ r.next = Len(text) + 1
          THEN [threw |-> FALSE, val |-> r.val]
          ELSE Thrown

\* value.length of a stored text: its number of characters.
RECURSIVE TextLength(_)
TextLength(text) ==
    IF text = <<>> THEN 0 ELSE Len(text[1]) + TextLength(Tail(text))

(* ----------------------- property access, numbers ---------------------- *)

RECURSIVE Lookup(_, _)
Lookup(props, name) ==
    IF props = <<>> THEN Undefined
    ELSE IF props[Len(props)][1] = name THEN props[Len(props)][2]
    ELSE Lookup(SubSeq(props, 1, Len(props) - 1), name)

\* v.name: a TypeError on null and undefined, undefined on a primitive.
Prop(v, name) ==
    IF v.t \in {"null", "undefined"} THEN Thrown
    ELSE IF v.t = "object" THEN [threw |-> FALSE, val |-> Lookup(v.props, name)]
    ELSE [threw |-> FALSE, val |-> Undefined]

\* ToNumber(v): [nan |-> TRUE] or the number.  The only string of the model
\* that is a numeric literal is the empty one.
ToNumber(v) ==
    CASE v.t = "number"  -> [nan |-> FALSE, n |-> v.n]
      [] v.t = "null"    -> [nan |-> FALSE, n |-> 0]
      [] v.t = "boolean" -> [nan |-> FALSE, n |-> IF v.b THEN 1 ELSE 0]
      [] v.t = "string"  -> IF v.s = "" THEN [nan |-> FALSE, n |-> 0] ELSE [nan |-> TRUE]
      [] OTHER           -> [nan |-> TRUE]

(* ---------------------------- localStorage ----------------------------- *)

\* The literal 'cache_' of the template `cache_${key}` and of startsWith.
PREFIX == <<"c", "a", "c", "h", "e", "_">>
\* `cache_${key}`
NsKey(key) == PREFIX \o key
\* The probe key '__cache_test__' of isAvailable.
ProbeKey == <<"_", "_", "c", "a", "c", "h", "e", "_", "t", "e", "s", "t", "_", "_">>
\* Keys of other users of the shared storage: 'theme' and 'cache'.
ForeignKeys == {<<"t", "h", "e", "m", "e">>, <<"c", "a", "c", "h", "e">>}

\* key.startsWith(prefix)
StartsWith(s, prefix) ==
    Len(s) >= Len(prefix) /\ SubSeq(s, 1, Len(prefix)) = prefix

\* localStorage.getItem(k): null when k is not stored.
GetItem(st, k) ==
    IF k \in DOMAIN st THEN [null |-> FALSE, text |-> st[k]] ELSE [null |-> TRUE]
\* localStorage.setItem(k, text)
SetItem(st, k, text) ==
    [x \in DOMAIN st \cup {k} |-> IF x = k THEN text ELSE st[x]]
\* localStorage.removeItem(k)
RemoveItem(st, k) == [x \in DOMAIN st \ {k} |-> st[x]]
\* Object.keys(localStorage)
ObjectKeys(st) == DOMAIN st

\* An operation runs with the set F of the storage methods ("getItem",
\* "setItem", "removeItem", "keys" for Object.keys) that throw when it calls
\* them (quota exceeded, storage disabled).

(* ----------------------------- CacheManager ---------------------------- *)

\* The outcome of a method body or of a call: the storage it leaves, whether
\* an exception leaves it (threw), the value it returns, and whether a
\* storage method threw while it ran (faulted).
Return(st, ret, faulted) ==
    [st |-> st, threw |-> FALSE, ret |-> ret, faulted |-> faulted]
Throw(st, faulted) ==
    [st |-> st, threw |-> TRUE, ret |-> Undefined, faulted |-> faulted]

\* const entry = {data: data, timestamp: Date.now(), ttl: ttl}
Entry(data, t, ttl) ==
    Obj(<< <<"data", data>>, <<"timestamp", Num(t)>>, <<"ttl", Num(ttl)>> >>)

\* A set that updates a stored entry in place: it keeps the timestamp of
\* the record it finds under the key.
SetBodyKeepTimestamp(st, t, key, data, ttl, F) ==
    LET old == IF NsKey(key) \in DOMAIN st
                 THEN JSONParse(st[NsKey(key)])
                 ELSE Thrown
        stamp == IF ~old.threw /\ old.val.t = "object"
                    /\ Lookup(old.val.props, "timestamp").t = "number"
                   THEN Lookup(old.val.props, "timestamp").n
                   ELSE t
        json == Stringify(Entry(data, stamp, ttl))
    IN  IF json.threw THEN Throw(st, FALSE)
        ELSE IF "setItem" \in F THEN Throw(st, TRUE)
        ELSE Return(SetItem(st, NsKey(key), json.text), Bool(TRUE), FALSE)

\* A set that deletes the old entry before it writes the new one.
SetBodyRemoveFirst(st, t, key, data, ttl, F) ==
    LET cleared == RemoveItem(st, NsKey(key))
        json    == Stringify(Entry(data, t, ttl))
    IN  IF json.threw THEN Throw(cleared, FALSE)
        ELSE IF "setItem" \in F THEN Throw(cleared, TRUE)
        ELSE Return(SetItem(cleared, NsKey(key), json.text), Bool(TRUE), FALSE)

\* The try block of set.
SetBody(st, t, key, data, ttl, F) ==
    LET json == Stringify(Entry(data, t, ttl))
    IN  IF json.threw THEN Throw(st, FALSE)
        ELSE IF "setItem" \in F THEN Throw(st, TRUE)
        ELSE Return(SetItem(st, NsKey(key), json.text), Bool(TRUE), FALSE)

\* CacheManager.set(key, data, ttl) at Date.now() = t.
Set(st, t, key, data, ttl, F) ==
    LET body == SetBody(st, t, key, data, ttl, F)
    IN  IF body.threw THEN Return(body.st, Bool(FALSE), body.faulted) ELSE body

\* A remove that deletes every key that starts with the namespaced key's
\* prefix.
RemoveBodySweep(st, key, F) ==
    IF "removeItem" \in F THEN Throw(st, TRUE)
    ELSE Return([k \in {x \in DOMAIN st : ~StartsWith(x, PREFIX)} |-> st[k]],
                Undefined, FALSE)

\* A remove that forgets the namespace prefix.
RemoveBodyRawKey(st, key, F) ==
    IF "removeItem" \in F THEN Throw(st, TRUE)
    ELSE Return(RemoveItem(st, key), Undefined, FALSE)

\* The try block of remove.
RemoveBody(st, key, F) ==
    IF "removeItem" \in F THEN Throw(st, TRUE)
    ELSE Return(RemoveItem(st, NsKey(key)), Undefined, FALSE)

\* A remove without its try/catch.
RemoveUncaught(st, key, F) ==
    IF "removeItem" \in F THEN Throw(st, TRUE)
    ELSE Return(RemoveItem(st, NsKey(key)), Undefined, FALSE)

\* CacheManager.remove(key)
Remove(st, key, F) ==
    LET body == RemoveBody(st, key, F)
    IN  IF body.threw THEN Return(body.st, Undefined, body.faulted) ELSE body

\* !cached of get: null and the empty string are falsy.
Falsy(cached) == cached.null \/ cached.text = <<>>

\* An expiry test with the operands of the subtraction exchanged.
ExpiredGetSwapped(entry, t) ==
    LET ts  == Prop(entry, "timestamp")
        ttl == Prop(entry, "ttl")
    IN  IF ts.threw \/ ttl.threw THEN Thrown
        ELSE LET a == ToNumber(ts.val)
                 b == ToNumber(ttl.val)
             IN  [threw |-> FALSE,
                  val   |-> ~a.nan /\ ~b.nan /\ a.n - t > b.n]

\* now - entry.timestamp > entry.ttl of get; the property reads throw a
\* TypeError when entry is null.
ExpiredGet(entry, t) ==
    LET ts  == Prop(entry, "timestamp")
        ttl == Prop(entry, "ttl")
    IN  IF ts.threw \/ ttl.threw THEN Thrown
        ELSE LET a == ToNumber(ts.val)
                 b == ToNumber(ttl.val)
             IN  [threw |-> FALSE,
                  val   |-> ~a.nan /\ ~b.nan /\ t - a.n > b.n]

\* return entry.data || null
HitOrNull(entry) ==
    LET data == Prop(entry, "data").val
    IN  IF data \in {Num(0), Str(""), Bool(FALSE), Null, Undefined, NaN}
          THEN Null
          ELSE data

\* return entry.data
Hit(entry) == Prop(entry, "data").val

\* A get that answers absent for an expired entry and leaves it stored.
GetBodyKeepExpired(st, t, key, F) ==
    IF "getItem" \in F THEN Throw(st, TRUE)
    ELSE LET cached == GetItem(st, NsKey(key))
         IN  IF Falsy(cached) THEN Return(st, Null, FALSE)
             ELSE LET parsed == JSONParse(cached.text)
                  IN  IF parsed.threw THEN Throw(st, FALSE)
                      ELSE LET expired == ExpiredGet(parsed.val, t)
                           IN  IF expired.threw THEN Throw(st, FALSE)
                               ELSE IF expired.val
                                 THEN Return(st, Null, FALSE)
                               ELSE Return(st, Hit(parsed.val), FALSE)

\* The try block of get.
GetBody(st, t, key, F) ==
    IF "getItem" \in F THEN Throw(st, TRUE)
    ELSE LET cached == GetItem(st, NsKey(key))
         IN  IF Falsy(cached) THEN Return(st, Null, FALSE)
             ELSE LET parsed == JSONParse(cached.text)
                  IN  IF parsed.threw THEN Throw(st, FALSE)
                      ELSE LET expired == ExpiredGet(parsed.val, t)
                           IN  IF expired.threw THEN Throw(st, FALSE)
                               ELSE IF expired.val
                                 THEN LET r == Remove(st, key, F)
                                      IN  IF r.threw THEN r
                                          ELSE Return(r.st, Null, r.faulted)
                               ELSE Return(st, Hit(parsed.val), FALSE)

\* CacheManager.get(key) at Date.now() = t.
Get(st, t, key, F) ==
    LET body == GetBody(st, t, key, F)
    IN  IF body.threw
          THEN LET r == Remove(body.st, key, F)
               IN  IF r.threw THEN Throw(r.st, TRUE)
                   ELSE Return(r.st, Null, body.faulted \/ r.faulted)
          ELSE body

\* key.startsWith('cache')
IsCacheKeyLoose(k) == StartsWith(k, <<"c", "a", "c", "h", "e">>)

\* key.startsWith('cache_')
IsCacheKey(k) == StartsWith(k, PREFIX)

\* A clear that empties the whole storage when it cannot enumerate it.
ClearBodyWipe(st, F, removed) ==
    IF "keys" \in F THEN Throw([x \in {} |-> <<>>], TRUE)
    ELSE LET cacheKeys == {k \in ObjectKeys(st) : IsCacheKey(k)}
         IN  IF cacheKeys # {} /\ "removeItem" \in F
               THEN Throw([x \in DOMAIN st \ (removed \cap cacheKeys) |-> st[x]], TRUE)
               ELSE Return([x \in DOMAIN st \ cacheKeys |-> st[x]], Undefined, FALSE)

\* The try block of clear.  When removeItem throws, the forEach stops after
\* some of the cache keys, in the order of Object.keys, have been removed.
ClearBody(st, F, removed) ==
    IF "keys" \in F THEN Throw(st, TRUE)
    ELSE LET cacheKeys == {k \in ObjectKeys(st) : IsCacheKey(k)}
         IN  IF cacheKeys # {} /\ "removeItem" \in F
               THEN Throw([x \in DOMAIN st \ (removed \cap cacheKeys) |-> st[x]], TRUE)
               ELSE Return([x \in DOMAIN st \ cacheKeys |-> st[x]], Undefined, FALSE)

\* CacheManager.clear()
Clear(st, F, removed) ==
    LET body == ClearBody(st, F, removed)
    IN  IF body.threw THEN Return(body.st, Undefined, body.faulted) ELSE body

\* An expiry test with >= for >.
ExpiredStatsInclusive(entry, t) ==
    LET ts  == Prop(entry, "timestamp")
        ttl == Prop(entry, "ttl")
    IN  IF ts.threw \/ ttl.threw THEN Thrown
        ELSE LET a == ToNumber(ts.val)
                 b == ToNumber(ttl.val)
             IN  [threw |-> FALSE,
                  val   |-> ~a.nan /\ ~b.nan /\ t - a.n >= b.n]

\* now - entry.timestamp > entry.ttl of getStats.
ExpiredStats(entry, t) ==
    LET ts  == Prop(entry, "timestamp")
        ttl == Prop(entry, "ttl")
    IN  IF ts.threw \/ ttl.threw THEN Thrown
        ELSE LET a == ToNumber(ts.val)
                 b == ToNumber(ttl.val)
             IN  [threw |-> FALSE,
                  val   |-> ~a.nan /\ ~b.nan /\ t - a.n > b.n]

\* The inner try of getStats on one stored value: which counter it raises.
Classify(text, t) ==
    LET parsed == JSONParse(text)
    IN  IF parsed.threw THEN "invalid"
        ELSE LET expired == ExpiredStats(parsed.val, t)
             IN  IF expired.threw THEN "invalid"
                 ELSE IF expired.val THEN "expired" ELSE "valid"

\* The cache keys that getStats counts in validEntries, in expiredEntries.
ValidKeys(st, t) ==
    {k \in ObjectKeys(st) : IsCacheKey(k) /\ Classify(st[k], t) = "valid"}
ExpiredKeys(st, t) ==
    {k \in ObjectKeys(st) : IsCacheKey(k) /\ Classify(st[k], t) = "expired"}

\* totalSize: the sum of value.length over the cache keys.
RECURSIVE TotalSize(_, _)
TotalSize(st, ks) ==
    IF ks = {} THEN 0
    ELSE LET k == CHOOSE x \in ks : TRUE
         IN  TextLength(st[k]) + TotalSize(st, ks \ {k})

\* (totalSize / 1024).toFixed(2), in hundredths of a KB.
ToFixed2(size) == (size * 100 + 512) \div 1024

\* A getStats that deletes the entries it cannot parse.
GetStatsBodyDropInvalid(st, t, F) ==
    IF "keys" \in F THEN Throw(st, TRUE)
    ELSE LET cacheKeys == {k \in ObjectKeys(st) : IsCacheKey(k)}
             kept == {k \in DOMAIN st :
                         ~(k \in cacheKeys /\ Classify(st[k], t) = "invalid")}
         IN  IF cacheKeys # {} /\ "getItem" \in F THEN Throw(st, TRUE)
             ELSE LET totalSize == TotalSize(st, cacheKeys)
                  IN  Return([k \in kept |-> st[k]],
                             [t              |-> "stats",
                              totalEntries   |-> Cardinality(cacheKeys),
                              validEntries   |-> Cardinality(ValidKeys(st, t)),
                              expiredEntries |-> Cardinality(ExpiredKeys(st, t)),
                              totalSizeBytes |-> totalSize,
                              totalSizeKB    |-> ToFixed2(totalSize)],
                             FALSE)

\* A getStats that deletes the entries it counts as expired.
GetStatsBodySweep(st, t, F) ==
    IF "keys" \in F THEN Throw(st, TRUE)
    ELSE LET cacheKeys == {k \in ObjectKeys(st) : IsCacheKey(k)}
             kept == DOMAIN st \ ExpiredKeys(st, t)
         IN  IF cacheKeys # {} /\ "getItem" \in F THEN Throw(st, TRUE)
             ELSE LET totalSize == TotalSize(st, cacheKeys)
                  IN  Return([k \in kept |-> st[k]],
                             [t              |-> "stats",
                              totalEntries   |-> Cardinality(cacheKeys),
                              validEntries   |-> Cardinality(ValidKeys(st, t)),
                              expiredEntries |-> Cardinality(ExpiredKeys(st, t)),
                              totalSizeBytes |-> totalSize,
                              totalSizeKB    |-> ToFixed2(totalSize)],
                             FALSE)

\* The try block of getStats.
GetStatsBody(st, t, F) ==
    IF "keys" \in F THEN Throw(st, TRUE)
    ELSE LET cacheKeys == {k \in ObjectKeys(st) : IsCacheKey(k)}
         IN  IF cacheKeys # {} /\ "getItem" \in F THEN Throw(st, TRUE)
             ELSE LET totalSize == TotalSize(st, cacheKeys)
                  IN  Return(st,
                             [t              |-> "stats",
                              totalEntries   |-> Cardinality(cacheKeys),
                              validEntries   |-> Cardinality(ValidKeys(st, t)),
                              expiredEntries |-> Cardinality(ExpiredKeys(st, t)),
                              totalSizeBytes |-> totalSize,
                              totalSizeKB    |-> ToFixed2(totalSize)],
                             FALSE)

\* CacheManager.getStats() at Date.now() = t.
GetStats(st, t, F) ==
    LET body == GetStatsBody(st, t, F)
    IN  IF body.threw THEN Return(body.st, Null, body.faulted) ELSE body

\* The try block of isAvailable.
IsAvailableBody(st, F) ==
    IF "setItem" \in F THEN Throw(st, TRUE)
    ELSE LET written == SetItem(st, ProbeKey, <<"__cache_test__">>)
         IN  IF "removeItem" \in F THEN Throw(written, TRUE)
             ELSE Return(RemoveItem(written, ProbeKey), Bool(TRUE), FALSE)

\* CacheManager.isAvailable()
IsAvailable(st, F) ==
    LET body == IsAvailableBody(st, F)
    IN  IF body.threw THEN Return(body.st, Bool(FALSE), body.faulted) ELSE body

(* ------------------------------ the system ----------------------------- *)

\* What the last step was: the operation called, its key and payload and how it
\* ended (ret: the value returned; threw: an exception reached the caller;
\* faulted: a storage method threw while it ran).
Called(op, key, data, r) ==
    [op |-> op, key |-> key, data |-> data,
     ret |-> r.ret, threw |-> r.threw, faulted |-> r.faulted]
NoCall(op) ==
    [op |-> op, key |-> <<>>, data |-> Undefined,
     ret |-> Undefined, threw |-> FALSE, faulted |-> FALSE]

\* Texts that another user of the storage (another tab, an older version of
\* the page) leaves under a cache key: none of them is an entry as set
\* writes it.
ExternalTexts ==
    { <<>>,
      <<"{", "\"data\"", ":">>,
      <<"null">>,
      <<"{", "\"data\"", ":", "0", "}">>,
      <<"{", "\"timestamp\"", ":", "0", ",", "\"ttl\"", ":", "0", "}">> }

\* expiresAt[k] is the instant timestamp + ttl of the last set on k that
\* returned true, with no write to k by another user of the storage since;
\* Never when there is none.  It is a record of the calls made, which no
\* operation reads.
Never == 0 - 1

\* What a text under a cache key is at instant t to a set that overwrites
\* it: a live entry, an expired entry, or a text that is no entry.
KindOf(text, t) ==
    LET p == JSONParse(text)
    IN  IF \/ p.threw
           \/ p.val.t # "object"
           \/ Lookup(p.val.props, "data").t = "undefined"
           \/ Lookup(p.val.props, "timestamp").t # "number"
           \/ Lookup(p.val.props, "ttl").t # "number"
          THEN "corrupt"
        ELSE IF t - Lookup(p.val.props, "timestamp").n > Lookup(p.val.props, "ttl").n
          THEN "expired"
        ELSE "live"

\* replaced is what the set that has just returned true overwrote ("absent"
\* when its key was not stored), and "none" after every other step.
\* enumFailed is TRUE when the clear or getStats just made found Object.keys
\* throwing.  Both are records of the calls made, which no operation reads.
Replaced(st, t, key) ==
    IF NsKey(key) \in DOMAIN st THEN KindOf(st[NsKey(key)], t) ELSE "absent"

\* The execution contexts that share the storage: two tabs of the page.
Tabs == {1, 2}

\* A context that is not inside set or get.
IdleTab ==
    [pc |-> "idle", key |-> <<>>, data |-> Undefined, ttl |-> 0, stamp |-> 0,
     json |-> <<>>]

\* No set has written the key yet.
NoWriter ==
    [tab |-> 0, data |-> Undefined, ttl |-> 0, stamp |-> 0,
     overTab |-> 0, overStamp |-> 0]

\* The storage holds what other scripts of the origin left in it.  The calls
\* of isAvailable and getStats that the script makes when it is loaded are
\* calls like any other (DoIsAvailable, DoGetStats).
InitCache ==
    /\ storage = [k \in ForeignKeys |-> <<"\"dark\"">>]
    /\ now = 0
    /\ last = NoCall("init")
    /\ expiresAt = [k \in Keys |-> Never]
    /\ replaced = "none"
    /\ enumFailed = FALSE
    /\ tabs = [c \in Tabs |-> IdleTab]
    /\ writer = [k \in Keys |-> NoWriter]

\* The page as the slideshow script finds it when it is loaded: n .slide
\* elements in the document, those in act marked active, the container
\* displayed as the stylesheet says; the module's state is as lines 14-16
\* set it, and the init() of lines 192-196 is in flight.
InitPage(n, act) ==
    /\ domCount = n
    /\ active = act
    /\ display = "css"
    /\ slides = <<>>
    /\ currentSlide = 0
    /\ slideshowInterval = 0
    /\ timers = {}
    /\ pendingInits = 1
    /\ called = [op |-> "load", threw |-> FALSE]
    /\ stopped = FALSE

\* The cache on a page without slides.
Init == InitCache /\ InitPage(0, {})

\* Time passes: Date.now() grows.
Tick ==
    /\ now < MaxTime
    /\ now' = now + 1
    /\ last' = NoCall("tick")
    /\ replaced' = "none"
    /\ enumFailed' = FALSE
    /\ UNCHANGED <<storage, expiresAt, tabVars, slideVars>>

\* Another user of the shared storage writes under a cache key.
ExternalWrite(key, text) ==
    /\ storage' = SetItem(storage, NsKey(key), text)
    /\ last' = NoCall("external")
    /\ expiresAt' = [expiresAt EXCEPT ![key] = Never]
    /\ replaced' = "none"
    /\ enumFailed' = FALSE
    /\ UNCHANGED <<now, tabVars, slideVars>>

DoSet(key, data, ttl, F) ==
    LET r == Set(storage, now, key, data, ttl, F)
    IN  /\ storage' = r.st
        /\ last' = Called("set", key, data, r)
        /\ expiresAt' = IF r.ret = Bool(TRUE)
                           THEN [expiresAt EXCEPT ![key] = now + ttl]
                           ELSE expiresAt
        /\ replaced' = IF r.ret = Bool(TRUE)
                          THEN Replaced(storage, now, key)
                          ELSE "none"
        /\ enumFailed' = FALSE
        /\ UNCHANGED <<now, tabVars, slideVars>>

DoGet(key, F) ==
    LET r == Get(storage, now, key, F)
    IN  /\ storage' = r.st
        /\ last' = Called("get", key, Undefined, r)
        /\ replaced' = "none"
        /\ enumFailed' = FALSE
        /\ UNCHANGED <<now, expiresAt, tabVars, slideVars>>

DoRemove(key, F) ==
    LET r == Remove(storage, key, F)
    IN  /\ storage' = r.st
        /\ last' = Called("remove", key, Undefined, r)
        /\ replaced' = "none"
        /\ enumFailed' = FALSE
        /\ UNCHANGED <<now, expiresAt, tabVars, slideVars>>

DoClear(F, removed) ==
    LET r == Clear(storage, F, removed)
    IN  /\ storage' = r.st
        /\ last' = Called("clear", <<>>, Undefined, r)
        /\ replaced' = "none"
        /\ enumFailed' = ("keys" \in F)
        /\ UNCHANGED <<now, expiresAt, tabVars, slideVars>>

DoGetStats(F) ==
    LET r == GetStats(storage, now, F)
    IN  /\ storage' = r.st
        /\ last' = Called("getStats", <<>>, Undefined, r)
        /\ replaced' = "none"
        /\ enumFailed' = ("keys" \in F)
        /\ UNCHANGED <<now, expiresAt, tabVars, slideVars>>

DoIsAvailable(F) ==
    LET r == IsAvailable(storage, F)
    IN  /\ storage' = r.st
        /\ last' = Called("isAvailable", <<>>, Undefined, r)
        /\ replaced' = "none"
        /\ enumFailed' = FALSE
        /\ UNCHANGED <<now, expiresAt, tabVars, slideVars>>

CacheKeysOf(st) == {k \in ObjectKeys(st) : IsCacheKey(k)}

\* One step of the system, with set called on the keys and payloads given.
Step(keys, payloads) ==
    \/ Tick
    \/ \E key \in keys, text \in ExternalTexts : ExternalWrite(key, text)
    \/ \E key \in keys, data \in payloads, ttl \in 0 .. MaxTtl, F \in SUBSET {"setItem"} :
          DoSet(key, data, ttl, F)
    \/ \E key \in keys, F \in SUBSET {"getItem", "removeItem"} : DoGet(key, F)
    \/ \E key \in keys, F \in SUBSET {"removeItem"} : DoRemove(key, F)
    \/ \E F \in SUBSET {"keys", "removeItem"}, removed \in SUBSET CacheKeysOf(storage) :
          /\ removed # CacheKeysOf(storage) \/ removed = {}
          /\ ("removeItem" \notin F \/ "keys" \in F) => removed = {}
          /\ DoClear(F, removed)
    \/ \E F \in SUBSET {"keys", "getItem"} : DoGetStats(F)
    \/ \E F \in SUBSET {"setItem", "removeItem"} : DoIsAvailable(F)

\* Two keys, one payload that serializes and one that does not.
Next == Step(Keys, Payloads)

Spec == Init /\ [][Next]_vars

\* One key, every payload.
NextValues == Step(OneKey, Data)

SpecValues == Init /\ [][NextValues]_vars

(* ------------------------- two execution contexts ---------------------- *)

\* Two tabs of the page run CacheManager over the one localStorage of the
\* origin.  Each storage call is atomic and the other tab may run between
\* two of them: set is entered up to its setItem call (the entry is built
\* and serialized) and then writes; get reads and decides, and when it has
\* decided to evict, calls removeItem in a later step.  tabs[c] holds the
\* locals of the call context c is in.  writer[k] records the arguments and
\* the instant of the set whose setItem on k came last, and of the one it
\* overwrote; no operation reads it.  The storage methods do not throw here.

\* set(key, data, ttl) in context c, lines 40-47 up to the setItem call.
TabSetBegin(c, key, data, ttl) ==
    LET json == Stringify(Entry(data, now, ttl))
    IN  /\ tabs[c].pc = "idle"
        /\ IF json.threw
             THEN /\ last' = Called("set", key, data, Set(storage, now, key, data, ttl, {}))
                  /\ UNCHANGED tabs
             ELSE /\ tabs' = [tabs EXCEPT ![c] =
                                 [pc |-> "setItem", key |-> key, data |-> data,
                                  ttl |-> ttl, stamp |-> now, json |-> json.text]]
                  /\ last' = NoCall("pending")
        /\ UNCHANGED <<storage, now, expiresAt, replaced, enumFailed, writer, slideVars>>

\* A set that does not write when the stored entry has a later timestamp.
TabSetWriteNewest(c) ==
    LET key == tabs[c].key
        old == IF NsKey(key) \in DOMAIN storage
                 THEN JSONParse(storage[NsKey(key)])
                 ELSE Thrown
        stale == /\ ~old.threw /\ old.val.t = "object"
                 /\ Lookup(old.val.props, "timestamp").t = "number"
                 /\ Lookup(old.val.props, "timestamp").n > tabs[c].stamp
    IN  /\ tabs[c].pc = "setItem"
        /\ storage' = IF stale THEN storage
                      ELSE SetItem(storage, NsKey(key), tabs[c].json)
        /\ tabs' = [tabs EXCEPT ![c] = IdleTab]
        /\ writer' = [writer EXCEPT ![key] =
                         [tab |-> c, data |-> tabs[c].data, ttl |-> tabs[c].ttl,
                          stamp |-> tabs[c].stamp,
                          overTab |-> writer[key].tab,
                          overStamp |-> writer[key].stamp]]
        /\ last' = Called("set", key, tabs[c].data, Return(storage', Bool(TRUE), FALSE))
        /\ UNCHANGED <<now, expiresAt, replaced, enumFailed, slideVars>>

\* The setItem call of the set context c is in, and its return (lines 47-48).
TabSetWrite(c) ==
    LET key == tabs[c].key
    IN  /\ tabs[c].pc = "setItem"
        /\ storage' = SetItem(storage, NsKey(key), tabs[c].json)
        /\ tabs' = [tabs EXCEPT ![c] = IdleTab]
        /\ writer' = [writer EXCEPT ![key] =
                         [tab |-> c, data |-> tabs[c].data, ttl |-> tabs[c].ttl,
                          stamp |-> tabs[c].stamp,
                          overTab |-> writer[key].tab,
                          overStamp |-> writer[key].stamp]]
        /\ last' = Called("set", key, tabs[c].data, Return(storage', Bool(TRUE), FALSE))
        /\ UNCHANGED <<now, expiresAt, replaced, enumFailed, slideVars>>

\* get(key) in context c, lines 62-78: it returns, or it has found the
\* record expired (line 73) or not parsable (line 79) and goes on to
\* this.remove(key).
TabGetRead(c, key) ==
    LET r == Get(storage, now, key, {})
    IN  /\ tabs[c].pc = "idle"
        /\ IF r.st = storage
             THEN /\ last' = Called("get", key, Undefined, r)
                  /\ UNCHANGED tabs
             ELSE /\ tabs' = [tabs EXCEPT ![c] =
                                 [IdleTab EXCEPT !.pc = "removeItem", !.key = key]]
                  /\ last' = NoCall("pending")
        /\ UNCHANGED <<storage, now, expiresAt, replaced, enumFailed, writer, slideVars>>

\* The this.remove(key) of the get context c is in, and the return of null
\* (lines 74-75, 81-82).
TabGetRemove(c) ==
    LET key == tabs[c].key
        r == Remove(storage, key, {})
    IN  /\ tabs[c].pc = "removeItem"
        /\ storage' = r.st
        /\ tabs' = [tabs EXCEPT ![c] = IdleTab]
        /\ last' = Called("get", key, Undefined, Return(r.st, Null, FALSE))
        /\ UNCHANGED <<now, expiresAt, replaced, enumFailed, writer, slideVars>>

\* The payloads of the two-context model: two that differ.
TabPayloads == {Num(0), Weather}

NextTabs ==
    \/ Tick
    \/ \E c \in Tabs, key \in OneKey, data \in TabPayloads, ttl \in 0 .. MaxTtl :
          TabSetBegin(c, key, data, ttl)
    \/ \E c \in Tabs : TabSetWrite(c)
    \/ \E c \in Tabs, key \in OneKey : TabGetRead(c, key)
    \/ \E c \in Tabs : TabGetRemove(c)

SpecTabs == Init /\ [][NextTabs]_vars

(* ------------------------------ slideshow ------------------------------ *)

\* The .slide elements of the document are numbered 1..domCount and active
\* is the set of those that carry the class 'active'.  slides is the
\* NodeList of the module as the sequence of the elements it holds, so that
\* the JS slides[i] is slides[i + 1] here.  slideshowInterval is the handle
\* the module holds (0 for null) and timers the set of interval timers that
\* exist in the page: a timer leaves it only through clearInterval.
\* pendingInits counts the calls of init() that wait at line 176.  called is
\* the last operation and whether it threw.  stopped records that hide()
\* was called and since then neither show nor restart, and no init() was
\* called or went on to initSlideshow; the module does not read it.

Range(seq) == {seq[i] : i \in 1 .. Len(seq)}

\* The state the functions of the module work on.
Slide ==
    [domCount |-> domCount, active |-> active, slides |-> slides,
     currentSlide |-> currentSlide, slideshowInterval |-> slideshowInterval,
     timers |-> timers, threw |-> FALSE]

\* document.querySelectorAll('.slide')
QuerySlides(n) == [i \in 1 .. n |-> i]

\* showSlide(index): with an empty slides, slides[currentSlide] is undefined
\* and line 115 throws a TypeError, after currentSlide has been assigned.
ShowSlide(s, index) ==
    LET n == Len(s.slides)
        cleared == s.active \ Range(s.slides)
        cur == IF index >= n THEN 0
               ELSE IF index < 0 THEN n - 1
               ELSE index
    IN  IF cur < 0 \/ cur >= n
          THEN [s EXCEPT !.active = cleared, !.currentSlide = cur, !.threw = TRUE]
          ELSE [s EXCEPT !.active = cleared \cup {s.slides[cur + 1]},
                         !.currentSlide = cur]

\* The handles setInterval can return.
FreeTimers(s) == (1 .. MaxTimers) \ s.timers

\* slideshowInterval = setInterval(nextSlide, interval)
SetInterval(s) ==
    LET id == CHOOSE i \in FreeTimers(s) : \A j \in FreeTimers(s) : i <= j
    IN  [s EXCEPT !.timers = @ \cup {id}, !.slideshowInterval = id]

\* initSlideshow()
InitSlideshow(s) ==
    LET q == [s EXCEPT !.slides = QuerySlides(s.domCount)]
    IN  IF Len(q.slides) > 0
          THEN LET shown == ShowSlide(q, 0)
               IN  IF shown.threw THEN shown ELSE SetInterval(shown)
          ELSE q

\* stopSlideshow()
StopSlideshow(s) ==
    IF s.slideshowInterval # 0
      THEN [s EXCEPT !.timers = @ \ {s.slideshowInterval},
                     !.slideshowInterval = 0]
      ELSE s

\* restartSlideshow()
RestartSlideshow(s) == InitSlideshow(StopSlideshow(s))

\* createImageSlides(slidesFolder, images) with images.length = n > 0: the
\* container's elements are replaced by n new ones, the first one active.
CreateImageSlides(s, n) == [s EXCEPT !.domCount = n, !.active = {1}]

\* setInterval finds a handle for the timer the call will create.
CanStart(s) == s.domCount > 0 => FreeTimers(s) # {}

\* The module's state after op left it as s.
Becomes(s, op) ==
    /\ domCount' = s.domCount
    /\ active' = s.active
    /\ slides' = s.slides
    /\ currentSlide' = s.currentSlide
    /\ slideshowInterval' = s.slideshowInterval
    /\ timers' = s.timers
    /\ called' = [op |-> op, threw |-> s.threw]

\* Slideshow.init() up to the await of line 176.
CallInit ==
    /\ pendingInits < MaxInits
    /\ pendingInits' = pendingInits + 1
    /\ called' = [op |-> "init", threw |-> FALSE]
    /\ stopped' = FALSE
    /\ UNCHANGED <<domCount, active, display, slides, currentSlide,
                   slideshowInterval, timers, cacheVars, tabVars>>

\* An init() goes on after the await: loadImageSlides has put images image
\* slides in the place of the HTML slides (none when images = 0: image
\* slides are off, slides.json is missing or empty, or the container is),
\* and initSlideshow runs (lines 47, 177).
InitResume(images) ==
    LET loaded == IF images > 0 THEN CreateImageSlides(Slide, images) ELSE Slide
    IN  /\ pendingInits > 0
        /\ CanStart(loaded)
        /\ pendingInits' = pendingInits - 1
        /\ Becomes(InitSlideshow(loaded), "resume")
        /\ stopped' = FALSE
        /\ UNCHANGED <<display, cacheVars, tabVars>>

\* Slideshow.show()
Show ==
    /\ CanStart(StopSlideshow(Slide))
    /\ display' = "flex"
    /\ Becomes(RestartSlideshow(Slide), "show")
    /\ stopped' = FALSE
    /\ UNCHANGED <<pendingInits, cacheVars, tabVars>>

\* Slideshow.hide()
Hide ==
    /\ display' = "none"
    /\ Becomes(StopSlideshow(Slide), "hide")
    /\ stopped' = TRUE
    /\ UNCHANGED <<pendingInits, cacheVars, tabVars>>

\* Slideshow.restart()
Restart ==
    /\ CanStart(StopSlideshow(Slide))
    /\ Becomes(RestartSlideshow(Slide), "restart")
    /\ stopped' = FALSE
    /\ UNCHANGED <<display, pendingInits, cacheVars, tabVars>>

\* Slideshow.next()
NextSlide ==
    /\ Becomes(ShowSlide(Slide, currentSlide + 1), "next")
    /\ UNCHANGED <<display, pendingInits, stopped, cacheVars, tabVars>>

\* Slideshow.previous()
PreviousSlide ==
    /\ Becomes(ShowSlide(Slide, currentSlide - 1), "previous")
    /\ UNCHANGED <<display, pendingInits, stopped, cacheVars, tabVars>>

\* The interval timer id fires: nextSlide().
TimerTick(id) ==
    /\ id \in timers
    /\ Becomes(ShowSlide(Slide, currentSlide + 1), "tick")
    /\ UNCHANGED <<display, pendingInits, stopped, cacheVars, tabVars>>

\* A page with any number of HTML slides, the first of them marked active
\* or none.
InitSlides ==
    /\ InitCache
    /\ \E n \in 0 .. MaxSlides, act \in SUBSET {1} :
          /\ act \subseteq 1 .. n
          /\ InitPage(n, act)

NextSlides ==
    \/ CallInit
    \/ \E images \in 0 .. MaxSlides : InitResume(images)
    \/ Show
    \/ Hide
    \/ Restart
    \/ NextSlide
    \/ PreviousSlide
    \/ \E id \in 1 .. MaxTimers : TimerTick(id)

SpecSlides == InitSlides /\ [][NextSlides]_vars

(* ------------------------------ properties ----------------------------- *)

\* The value get returns for "absent".
Absent(v) == v = Null

HasProp(props, name) == \E i \in 1 .. Len(props) : props[i][1] = name

\* The text is an entry as the documentation describes it: an object with a
\* data field and numeric timestamp and ttl fields.
IsEntryText(text) ==
    LET p == JSONParse(text)
    IN  /\ ~p.threw
        /\ p.val.t = "object"
        /\ HasProp(p.val.props, "data")
        /\ Lookup(p.val.props, "timestamp").t = "number"
        /\ Lookup(p.val.props, "ttl").t = "number"

DataOf(text) == Lookup(JSONParse(text).val.props, "data")
TimestampOf(text) == Lookup(JSONParse(text).val.props, "timestamp").n
TtlOf(text) == Lookup(JSONParse(text).val.props, "ttl").n

\* The liveness of the documentation: now - timestamp <= ttl.
Live(text, t) == t - TimestampOf(text) <= TtlOf(text)

Stored(key) == NsKey(key) \in DOMAIN storage

\* More than ttl has passed since the last set on key that returned true.
Overdue(key) == expiresAt[key] # Never /\ now > expiresAt[key]

\* C1: a get(k) that follows a set(k, v, t) of a serializable v directly, with
\* no clock advance in between and the storage working, returns v.
C1_GetAfterSet ==
    [][ ( /\ last.op = "set" /\ last.ret = Bool(TRUE)
          /\ last.data \in Serializable
          /\ last'.op = "get" /\ last'.key = last.key
          /\ ~last'.faulted )
        => last'.ret = last.data ]_vars

\* get has just returned the falsy payload false of a set made at this
\* instant with the largest ttl.
C1_Witness ==
    /\ last.op = "get" /\ ~last.faulted
    /\ last.ret = Bool(FALSE)
    /\ expiresAt[last.key] = now + MaxTtl

\* C2: once more than t has passed since set(k, v, t), with no further set on
\* k, get(k) returns absent and the validEntries of getStats is at most the
\* number of the other cache keys: k is not counted in it.
C2_ExpiredIsAbsent ==
    [][ /\ \A key \in Keys :
             (Overdue(key) /\ last'.op = "get" /\ last'.key = key)
             => Absent(last'.ret)
        /\ (last'.op = "getStats" /\ last'.ret # Null)
           => last'.ret.validEntries <=
                 Cardinality({k \in CacheKeysOf(storage) :
                                 \A key \in Keys : Overdue(key) => k # NsKey(key)})
      ]_vars

\* get has just found the overdue entry of its key and returned absent.
C2_Witness ==
    /\ last.op = "get" /\ ~last.faulted
    /\ Overdue(last.key)
    /\ Absent(last.ret)
    /\ ~Stored(last.key)

\* C3: get and getStats use the boundary now - timestamp <= ttl: get returns
\* the data of an entry exactly when the entry is live, the instant
\* now - timestamp = ttl included, and getStats counts every live entry as
\* valid and every other entry as expired.
C3_Boundary ==
    [][ /\ \A key \in Keys :
             ( /\ last'.op = "get" /\ last'.key = key /\ ~last'.faulted
               /\ Stored(key) /\ IsEntryText(storage[NsKey(key)]) )
             => IF Live(storage[NsKey(key)], now)
                  THEN last'.ret = DataOf(storage[NsKey(key)]) /\ storage' = storage
                  ELSE Absent(last'.ret)
        /\ (last'.op = "getStats" /\ last'.ret # Null)
           => /\ last'.ret.validEntries >=
                    Cardinality({k \in CacheKeysOf(storage) :
                                    IsEntryText(storage[k]) /\ Live(storage[k], now)})
              /\ last'.ret.expiredEntries >=
                    Cardinality({k \in CacheKeysOf(storage) :
                                    IsEntryText(storage[k]) /\ ~Live(storage[k], now)})
      ]_vars

\* get has just returned the data of an entry with ttl > 0 at the instant
\* now - timestamp = ttl.
C3_Witness ==
    /\ last.op = "get" /\ ~last.faulted
    /\ Stored(last.key) /\ IsEntryText(storage[NsKey(last.key)])
    /\ TtlOf(storage[NsKey(last.key)]) > 0
    /\ now - TimestampOf(storage[NsKey(last.key)]) = TtlOf(storage[NsKey(last.key)])
    /\ last.ret = DataOf(storage[NsKey(last.key)])

\* C4: a get(k) that follows a remove(k) directly returns absent, whatever
\* was stored under k, when the storage let the remove through; and a
\* remove of a key that is not stored changes nothing and raises nothing.
C4_RemoveThenGet ==
    [][ /\ ( /\ last.op = "remove" /\ ~last.faulted
             /\ last'.op = "get" /\ last'.key = last.key )
           => Absent(last'.ret)
        /\ \A key \in Keys :
             (last'.op = "remove" /\ last'.key = key /\ ~Stored(key))
             => storage' = storage /\ ~last'.threw
      ]_vars

\* get has just returned absent for a key whose last set is still within its
\* ttl: the entry was deleted.
C4_Witness ==
    /\ last.op = "get" /\ ~last.faulted
    /\ expiresAt[last.key] # Never /\ now <= expiresAt[last.key]
    /\ Absent(last.ret)

\* C5: clear leaves every key that does not start with 'cache_' with the
\* value it had; after a clear that the storage let through, getStats
\* reports totalEntries = 0 and get returns absent for every key.
C5_Clear ==
    [][ /\ last'.op = "clear"
           => \A k \in DOMAIN storage \cup DOMAIN storage' :
                 ~StartsWith(k, PREFIX)
                 => k \in DOMAIN storage /\ k \in DOMAIN storage'
                    /\ storage'[k] = storage[k]
        /\ (last.op = "clear" /\ ~last.faulted /\ last'.op = "getStats" /\ ~last'.faulted)
           => last'.ret # Null /\ last'.ret.totalEntries = 0
        /\ (last.op = "clear" /\ ~last.faulted /\ last'.op = "get")
           => Absent(last'.ret)
      ]_vars

\* clear has just emptied the namespace in which both keys had been set and
\* were within their ttl, and the foreign keys are still stored.
C5_Witness ==
    /\ last.op = "clear" /\ ~last.faulted
    /\ \A key \in Keys : expiresAt[key] # Never /\ now <= expiresAt[key]
    /\ CacheKeysOf(storage) = {}
    /\ ForeignKeys \subseteq DOMAIN storage

\* C6: when isAvailable returns, the probe key is not in the storage.
C6_ProbeNeverLeft ==
    last.op = "isAvailable" => ProbeKey \notin DOMAIN storage

\* C7: a set fails when the write or the serialization fails; a set that
\* fails returns false, throws nothing and leaves the storage as it was.
C7_SetFailure ==
    [][ last'.op = "set"
        => /\ ~last'.threw
           /\ (last'.faulted \/ last'.data = Cyclic) => last'.ret = Bool(FALSE)
           /\ last'.ret = Bool(FALSE) => storage' = storage
      ]_vars

\* set has just failed on a key that holds a live entry.
C7_Witness ==
    /\ last.op = "set" /\ last.ret = Bool(FALSE)
    /\ Stored(last.key) /\ IsEntryText(storage[NsKey(last.key)])
    /\ Live(storage[NsKey(last.key)], now)

\* C8: get on a key whose stored text is not valid JSON, the empty text
\* included, returns absent, throws nothing and removes the key.
C8_CorruptEvicted ==
    [][ \A key \in Keys :
           ( /\ last'.op = "get" /\ last'.key = key /\ ~last'.faulted
             /\ Stored(key) /\ JSONParse(storage[NsKey(key)]).threw )
           => /\ Absent(last'.ret)
              /\ ~last'.threw
              /\ NsKey(key) \notin DOMAIN storage'
      ]_vars

\* C9: get on a key whose stored text is valid JSON but not an entry (a field
\* is missing or not a number, or the value is no object) returns absent
\* and removes the key.
C9_MisshapenEvicted ==
    [][ \A key \in Keys :
           ( /\ last'.op = "get" /\ last'.key = key /\ ~last'.faulted
             /\ Stored(key)
             /\ ~JSONParse(storage[NsKey(key)]).threw
             /\ ~IsEntryText(storage[NsKey(key)]) )
           => /\ Absent(last'.ret)
              /\ NsKey(key) \notin DOMAIN storage'
      ]_vars

\* What each operation returns when the storage fails.
FailureValue(op) ==
    CASE op = "set"         -> Bool(FALSE)
      [] op = "get"         -> Null
      [] op = "getStats"    -> Null
      [] op = "isAvailable" -> Bool(FALSE)
      [] OTHER              -> Undefined

\* C10: no operation lets an exception reach its caller; when a storage
\* method throws, the operation returns its failure value.
C10_NoFaultEscapes ==
    /\ ~last.threw
    /\ last.faulted => last.ret = FailureValue(last.op)

\* get has just returned absent because the storage threw, with the entry
\* of its key still stored.
C10_Witness ==
    /\ last.op = "get" /\ last.faulted
    /\ last.ret = Null
    /\ Stored(last.key)

\* The text parses to an object with numeric timestamp and ttl and
\* t - timestamp > ttl.
ExpiredText(text, t) ==
    LET p == JSONParse(text)
    IN  /\ ~p.threw
        /\ p.val.t = "object"
        /\ Lookup(p.val.props, "timestamp").t = "number"
        /\ Lookup(p.val.props, "ttl").t = "number"
        /\ t - Lookup(p.val.props, "timestamp").n > Lookup(p.val.props, "ttl").n

\* The keys of the storage under the namespace prefix.
Namespaced(st) == {k \in DOMAIN st : StartsWith(k, PREFIX)}

\* C11: getStats leaves the storage as it was, whatever is stored (expired
\* entries, texts that do not parse) and whether it succeeds or fails.
C11_StatsReadOnly ==
    [][ last'.op = "getStats" => storage' = storage ]_vars

\* getStats has just counted an expired entry and skipped a text that it
\* could not classify, and both are still stored.
C11_Witness ==
    /\ last.op = "getStats" /\ last.ret # Null
    /\ last.ret.expiredEntries = 1
    /\ last.ret.validEntries = 0
    /\ last.ret.totalEntries = 2
    /\ Cardinality(Namespaced(storage)) = 2

\* C12: in the result of getStats totalEntries is the number of keys under
\* the prefix, every entry is counted as valid when live and as expired when
\* not, every text that is not an entry is counted in neither, and
\* validEntries + expiredEntries = totalEntries - the number of such texts.
C12_StatsCounts ==
    (last.op = "getStats" /\ last.ret # Null)
    => LET entries == {k \in Namespaced(storage) : IsEntryText(storage[k])}
       IN  /\ last.ret.totalEntries = Cardinality(Namespaced(storage))
           /\ last.ret.validEntries =
                 Cardinality({k \in entries : Live(storage[k], now)})
           /\ last.ret.expiredEntries =
                 Cardinality({k \in entries : ~Live(storage[k], now)})
           /\ last.ret.validEntries + last.ret.expiredEntries =
                 last.ret.totalEntries
                 - Cardinality(Namespaced(storage) \ entries)

\* C13: after a get that met no storage fault, its key does not hold an
\* entry that parses and is expired: the get has removed it.
C13_ExpiredEvicted ==
    (last.op = "get" /\ ~last.faulted)
    => ~(Stored(last.key) /\ ExpiredText(storage[NsKey(last.key)], now))

\* get has just returned absent for a key whose set is overdue and the key is
\* gone, while the overdue entry of the other key is still stored.
C13_Witness ==
    /\ last.op = "get" /\ ~last.faulted /\ Absent(last.ret)
    /\ Overdue(last.key) /\ ~Stored(last.key)
    /\ \E other \in Keys \ {last.key} :
          /\ Overdue(other) /\ Stored(other)
          /\ ExpiredText(storage[NsKey(other)], now)

\* C14: an expired entry stays stored, unchanged, over every step that is
\* not a get, set or remove on its key, a clear, or a write by another user
\* of the storage: over the passage of time, getStats, isAvailable and the
\* calls on other keys; and getStats counts it in expiredEntries and in
\* totalEntries.
C14_LazyExpiry ==
    [][ /\ \A key \in Keys :
             ( /\ Stored(key) /\ ExpiredText(storage[NsKey(key)], now')
               /\ ~(last'.op \in {"get", "set", "remove"} /\ last'.key = key)
               /\ last'.op \notin {"clear", "external"} )
             => /\ NsKey(key) \in DOMAIN storage'
                /\ storage'[NsKey(key)] = storage[NsKey(key)]
        /\ (last'.op = "getStats" /\ last'.ret # Null)
           => LET overdue == {key \in Keys : Overdue(key) /\ Stored(key)}
              IN  /\ last'.ret.expiredEntries >= Cardinality(overdue)
                  /\ last'.ret.totalEntries >= Cardinality(overdue)
      ]_vars

\* getStats has just reported both keys, set and overdue, as expired, and
\* both are still stored.
C14_Witness ==
    /\ last.op = "getStats" /\ last.ret # Null
    /\ last.ret.expiredEntries = 2
    /\ \A key \in Keys : Overdue(key) /\ Stored(key)

\* C15: a set that returns true replaces the record under its key as a
\* whole, whatever it was: the stored record has the data, the ttl and the
\* instant of this set; the record then stays as written until the next
\* set, remove, clear or foreign write; and a get returns its data for as
\* long as at most ttl has passed since this set.
C15_SetReplaces ==
    [][ /\ ( /\ last'.op = "set" /\ last'.ret = Bool(TRUE)
             /\ last'.data \in Serializable )
           => LET text == storage'[NsKey(last'.key)]
              IN  /\ IsEntryText(text)
                  /\ DataOf(text) = last'.data
                  /\ TimestampOf(text) = now
                  /\ TimestampOf(text) + TtlOf(text) = expiresAt'[last'.key]
        /\ \A key \in Keys :
             ( /\ Stored(key) /\ expiresAt[key] # Never
               /\ NsKey(key) \in DOMAIN storage'
               /\ ~(last'.op = "set" /\ last'.key = key /\ last'.ret = Bool(TRUE))
               /\ last'.op # "external" )
             => storage'[NsKey(key)] = storage[NsKey(key)]
        /\ \A key \in Keys :
             ( /\ last'.op = "get" /\ last'.key = key /\ ~last'.faulted
               /\ Stored(key) /\ expiresAt[key] # Never
               /\ now <= expiresAt[key] )
             => last'.ret = DataOf(storage[NsKey(key)])
      ]_vars

\* set has just put the weather record with the largest ttl in the place of
\* an entry that had expired.
C15_Witness ==
    /\ last.op = "set" /\ last.ret = Bool(TRUE)
    /\ replaced = "expired"
    /\ last.data = Weather
    /\ expiresAt[last.key] = now + MaxTtl

\* C16: when Object.keys on the storage throws, getStats returns absent and
\* clear returns normally, nothing is thrown to the caller, and the storage
\* is left exactly as it was.
C16_EnumerationFailure ==
    [][ enumFailed'
        => /\ storage' = storage
           /\ ~last'.threw
           /\ last'.op = "getStats" => Absent(last'.ret)
           /\ last'.op = "clear" => last'.ret = Undefined
      ]_vars

\* clear has just met the failing enumeration while both keys held entries
\* within their ttl, and both are still stored.
C16_Witness ==
    /\ enumFailed /\ last.op = "clear"
    /\ \A key \in Keys :
          /\ Stored(key)
          /\ expiresAt[key] # Never /\ now <= expiresAt[key]

\* C19: set(k, ...), get(k) and remove(k) leave every storage key other than
\* 'cache_' + k, namespaced or not, stored with the value it had; and a
\* get(k) that reads a live entry leaves the whole storage unchanged.
C19_OwnKeyOnly ==
    [][ /\ \A key \in Keys :
             (last'.op \in {"set", "get", "remove"} /\ last'.key = key)
             => \A k \in (DOMAIN storage \cup DOMAIN storage') \ {NsKey(key)} :
                   /\ k \in DOMAIN storage /\ k \in DOMAIN storage'
                   /\ storage'[k] = storage[k]
        /\ \A key \in Keys :
             ( /\ last'.op = "get" /\ last'.key = key /\ ~last'.faulted
               /\ Stored(key) /\ IsEntryText(storage[NsKey(key)])
               /\ Live(storage[NsKey(key)], now) )
             => storage' = storage
      ]_vars

\* remove has just deleted the entry set under its key, and the other key
\* still holds its entry, within its ttl, beside the foreign keys.
C19_Witness ==
    /\ last.op = "remove" /\ ~last.faulted
    /\ expiresAt[last.key] # Never /\ ~Stored(last.key)
    /\ \E other \in Keys \ {last.key} :
          /\ Stored(other) /\ IsEntryText(storage[NsKey(other)])
          /\ expiresAt[other] # Never /\ now <= expiresAt[other]
    /\ ForeignKeys \subseteq DOMAIN storage

\* C17: when the two contexts call set on the same key, in every
\* interleaving the record stored under the key is exactly the entry (data,
\* timestamp, ttl) built by the set whose setItem came last, never a
\* mixture of the two, and every set returns true.
C17_LastWriterWins ==
    /\ \A key \in Keys :
          (writer[key].tab # 0 /\ Stored(key))
          => LET text == storage[NsKey(key)]
             IN  /\ IsEntryText(text)
                 /\ DataOf(text) = writer[key].data
                 /\ TimestampOf(text) = writer[key].stamp
                 /\ TtlOf(text) = writer[key].ttl
    /\ last.op = "set" => last.ret = Bool(TRUE) /\ ~last.threw

\* The set of context 1, entered first, has just written over the entry of
\* the set of context 2, which was entered later with a different payload
\* and a different ttl: the stored record is the older entry.
C17_Witness ==
    /\ last.op = "set"
    /\ \E key \in Keys :
          /\ writer[key].tab = 1 /\ writer[key].overTab = 2
          /\ writer[key].overStamp > writer[key].stamp
          /\ writer[key].data = Weather /\ writer[key].ttl = 0
          /\ Stored(key)
          /\ TimestampOf(storage[NsKey(key)]) = writer[key].stamp

\* C18: a step of get deletes the record under its key only when that
\* record is expired or cannot be deserialized: it never deletes a live
\* entry, also when a set of the other context wrote the key after the
\* get had read it.
C18_GetKeepsLive ==
    [][ \A key \in Keys :
           ( /\ last'.op = "get" /\ last'.key = key
             /\ Stored(key) /\ NsKey(key) \notin DOMAIN storage' )
           => ~( /\ IsEntryText(storage[NsKey(key)])
                 /\ Live(storage[NsKey(key)], now) )
      ]_vars

\* C20: at most one interval timer of the slideshow exists at a time, and
\* after hide() none exists until the next show, restart or init.
C20_OneTimer ==
    /\ Cardinality(timers) <= 1
    /\ stopped => timers = {}

\* C21: after next, previous or a timer tick, currentSlide is an index of
\* slides and the one element marked active is slides[currentSlide]; next
\* and the tick go from the last slide to index 0, previous goes from index
\* 0 to the last slide; and none of them throws, also when slides is empty.
C21_SlideIndex ==
    [][ called'.op \in {"next", "previous", "tick"}
        => /\ ~called'.threw
           /\ Len(slides') > 0
              => /\ currentSlide' \in 0 .. Len(slides') - 1
                 /\ active' = {slides'[currentSlide' + 1]}
                 /\ called'.op \in {"next", "tick"}
                    => currentSlide' = (currentSlide + 1) % Len(slides)
                 /\ called'.op = "previous"
                    => currentSlide' = (currentSlide + Len(slides) - 1) % Len(slides)
      ]_vars

====
